---- MODULE Spec2Model ----
(***************************************************************************)
(* Model of Code/hashtable.py: a hash table with a fixed array of buckets, *)
(* each bucket a linked list (chain) of (key, value) pairs.                *)
(*                                                                         *)
(* Keys are Python ints, whose hash is deterministic; values are small     *)
(* positive ints.  Bucket indices are 0-based as in the source; the TLA+   *)
(* sequence of buckets is 1-based, so bucket i of the source is            *)
(* buckets[i + 1].  The linked list class lives in linkedlist.py, which is *)
(* not part of the source tree at hand: the Chain* operators model it from *)
(* the specification's section 4.1.                                        *)
(***************************************************************************)
EXTENDS Integers, Sequences, FiniteSets

(* ---------------------------- bounds ----------------------------------- *)

\* keys are the ints -1 .. MaxKey
MaxKey == 1
\* values are the ints 1 .. MaxVal
MaxVal == 2
\* init_size is drawn from -1 .. MaxSize
MaxSize == 2

Keys == (0 - 1)..MaxKey
Values == 1..MaxVal
InitSizes == (0 - 1)..MaxSize

\* the reference map's marker for "no entry"
NoVal == 0 - 1

VARIABLES
    buckets,    \* self.buckets: the array of chains
    init_size,  \* the argument __init__ was called with
    ref,        \* reference map driven by the same calls: Keys -> Values or NoVal
    order,      \* keys that have an entry, in order of their most recent set
    last        \* the last call: operation, arguments, outcome

vars == <<buckets, init_size, ref, order, last>>

(* ------------------- Chain (linked list of pairs) ---------------------- *)

\* LinkedList(): a new empty chain
LinkedList == <<>>

\* Chain.items(): all pairs in insertion order, a fresh sequence each call
ChainItems(chain) == chain

\* Chain.length()
ChainLength(chain) == Len(chain)

\* Chain.append(entry): adds the entry at the tail
ChainAppend(chain, entry) == Append(chain, entry)

\* whether Chain.delete(entry) finds an entry equal to the given pair
ChainHas(chain, entry) == \E i \in 1..Len(chain) : chain[i] = entry

\* Chain.delete(entry): removes the first entry equal to the given pair
ChainDelete(chain, entry) ==
    LET i == CHOOSE j \in 1..Len(chain) :
                 /\ chain[j] = entry
                 /\ \A m \in 1..(j - 1) : chain[m] # entry
    IN  SubSeq(chain, 1, i - 1) \o SubSeq(chain, i + 1, Len(chain))

(* ----------------------------- HashTable ------------------------------- *)

\* range(init_size): how many times the comprehension of __init__ runs
Range(n) == IF n > 0 THEN n ELSE 0

\* HashTable.__init__
HashTableInit(n) == [i \in 1..Range(n) |-> LinkedList]

\* hash(key) of a Python int: the int itself, except that hash(-1) is -2
hash(key) == IF key = 0 - 1 THEN 0 - 2 ELSE key

\* HashTable._bucket_index; needs at least one bucket
bucket_index(b, key) == hash(key) % Len(b)

\* HashTable.get_bucket
get_bucket(b, key) == b[bucket_index(b, key) + 1]

\* HashTable.contains
contains(b, key) ==
    LET bucket == get_bucket(b, key)
        its == ChainItems(bucket)
    IN  \E i \in 1..Len(its) : its[i][1] = key

\* HashTable.get: the value of the first entry of the bucket with the key
get(b, key) ==
    LET bucket == get_bucket(b, key)
        its == ChainItems(bucket)
        hits == {i \in 1..Len(its) : its[i][1] = key}
    IN  IF hits = {}
        THEN [err |-> "KeyError", value |-> NoVal]
        ELSE [err |-> "none",
              value |-> its[CHOOSE i \in hits : \A j \in hits : i <= j][2]]

\* set_loop that removes the old entry and appends nothing
RECURSIVE set_loop_no_append(_, _, _, _, _)
set_loop_no_append(chain, its, i, key, value) ==
    IF i > Len(its)
    THEN [chain |-> chain, err |-> "none"]
    ELSE IF its[i][1] = key
         THEN IF ChainHas(chain, its[i])
              THEN set_loop_no_append(ChainDelete(chain, its[i]), its, i + 1,
                                      key, value)
              ELSE [chain |-> chain, err |-> "ValueError"]
         ELSE set_loop_no_append(chain, its, i + 1, key, value)

\* the for loop of HashTable.set over the snapshot bucket.items()
RECURSIVE set_loop(_, _, _, _, _)
set_loop(chain, its, i, key, value) ==
    IF i > Len(its)
    THEN [chain |-> chain, err |-> "none"]
    ELSE IF its[i][1] = key
         THEN IF ChainHas(chain, its[i])
              THEN set_loop(ChainAppend(ChainDelete(chain, its[i]), <<key, value>>),
                            its, i + 1, key, value)
              ELSE [chain |-> chain, err |-> "ValueError"]
         ELSE set_loop(chain, its, i + 1, key, value)

\* set that leaves a key already present alone
set_skip_present(b, key, value) ==
    LET idx == bucket_index(b, key) + 1
    IN  IF contains(b, key)
        THEN [buckets |-> b, err |-> "none"]
        ELSE [buckets |-> [b EXCEPT ![idx] = ChainAppend(b[idx], <<key, value>>)],
              err |-> "none"]

\* set that appends without looking for the key
set_always_append(b, key, value) ==
    LET idx == bucket_index(b, key) + 1
    IN  [buckets |-> [b EXCEPT ![idx] = ChainAppend(b[idx], <<key, value>>)],
         err |-> "none"]

\* set that updates the value of a present key where the entry is
set_in_place(b, key, value) ==
    LET idx == bucket_index(b, key) + 1
    IN  IF contains(b, key)
        THEN [buckets |->
                  [b EXCEPT ![idx] =
                       [j \in 1..Len(b[idx]) |->
                            IF b[idx][j][1] = key THEN <<key, value>> ELSE b[idx][j]]],
              err |-> "none"]
        ELSE [buckets |-> [b EXCEPT ![idx] = ChainAppend(b[idx], <<key, value>>)],
              err |-> "none"]

\* HashTable.set
set(b, key, value) ==
    LET idx == bucket_index(b, key) + 1
        bucket == b[idx]
    IN  IF contains(b, key)
        THEN LET r == set_loop(bucket, ChainItems(bucket), 1, key, value)
             IN  [buckets |-> [b EXCEPT ![idx] = r.chain], err |-> r.err]
        ELSE [buckets |-> [b EXCEPT ![idx] = ChainAppend(bucket, <<key, value>>)],
              err |-> "none"]

\* the for loop of HashTable.delete over the snapshot bucket.items()
RECURSIVE delete_loop(_, _, _, _)
delete_loop(chain, its, i, key) ==
    IF i > Len(its)
    THEN [chain |-> chain, err |-> "none"]
    ELSE IF its[i][1] = key
         THEN IF ChainHas(chain, its[i])
              THEN delete_loop(ChainDelete(chain, its[i]), its, i + 1, key)
              ELSE [chain |-> chain, err |-> "ValueError"]
         ELSE delete_loop(chain, its, i + 1, key)

\* delete that drops the head of the bucket before reporting an absent key
delete_pop_on_miss(b, key) ==
    LET idx == bucket_index(b, key) + 1
        bucket == b[idx]
    IN  IF contains(b, key)
        THEN LET r == delete_loop(bucket, ChainItems(bucket), 1, key)
             IN  [buckets |-> [b EXCEPT ![idx] = r.chain], err |-> r.err]
        ELSE [buckets |-> [b EXCEPT ![idx] = SubSeq(bucket, 2, Len(bucket))],
              err |-> "KeyError"]

\* HashTable.delete
delete(b, key) ==
    LET idx == bucket_index(b, key) + 1
        bucket == b[idx]
    IN  IF contains(b, key)
        THEN LET r == delete_loop(bucket, ChainItems(bucket), 1, key)
             IN  [buckets |-> [b EXCEPT ![idx] = r.chain], err |-> r.err]
        ELSE [buckets |-> b, err |-> "KeyError"]

\* HashTable.items: the chains' pairs, bucket by bucket
RECURSIVE items_from(_, _)
items_from(b, i) ==
    IF i > Len(b) THEN <<>> ELSE ChainItems(b[i]) \o items_from(b, i + 1)

\* items that reads the first bucket only
items_first_bucket(b) == IF Len(b) = 0 THEN <<>> ELSE ChainItems(b[1])

items(b) == items_from(b, 1)

\* HashTable.keys
RECURSIVE keys_from(_, _)
keys_from(b, i) ==
    IF i > Len(b)
    THEN <<>>
    ELSE [j \in 1..Len(ChainItems(b[i])) |-> ChainItems(b[i])[j][1]]
         \o keys_from(b, i + 1)

keys(b) == keys_from(b, 1)

\* HashTable.values
RECURSIVE values_from(_, _)
values_from(b, i) ==
    IF i > Len(b)
    THEN <<>>
    ELSE [j \in 1..Len(ChainItems(b[i])) |-> ChainItems(b[i])[j][2]]
         \o values_from(b, i + 1)

values(b) == values_from(b, 1)

\* HashTable.length: the sum of the chains' lengths
RECURSIVE length_from(_, _)
length_from(b, i) ==
    IF i > Len(b) THEN 0 ELSE ChainLength(b[i]) + length_from(b, i + 1)

\* length that counts the buckets in use instead of the entries
length_buckets_in_use(b) == Cardinality({i \in 1..Len(b) : ChainLength(b[i]) > 0})

length(b) == length_from(b, 1)

(* ------------------------------ the calls ------------------------------ *)

\* the record of a call
Call(op, key, value, old, err, result) ==
    [op |-> op, key |-> key, value |-> value, old |-> old, err |-> err,
     result |-> result]

\* order without the key
Without(seq, key) == SelectSeq(seq, LAMBDA k : k # key)

Init ==
    /\ init_size \in InitSizes
    /\ buckets = HashTableInit(init_size)
    /\ ref = [k \in Keys |-> NoVal]
    /\ order = <<>>
    /\ last = Call("new", 0, NoVal, NoVal, "none", 0)

\* ht.set(key, value)
Set(key, value) ==
    IF Len(buckets) = 0
    THEN /\ last' = Call("set", key, value, ref[key], "ZeroDivisionError", 0)
         /\ UNCHANGED <<buckets, init_size, ref, order>>
    ELSE LET r == set(buckets, key, value)
         IN  /\ buckets' = r.buckets
             /\ last' = Call("set", key, value, ref[key], r.err, 0)
             /\ IF r.err = "none"
                THEN /\ ref' = [ref EXCEPT ![key] = value]
                     /\ order' = Append(Without(order, key), key)
                ELSE UNCHANGED <<ref, order>>
             /\ UNCHANGED init_size

\* ht.delete(key)
Delete(key) ==
    IF Len(buckets) = 0
    THEN /\ last' = Call("delete", key, NoVal, ref[key], "ZeroDivisionError", 0)
         /\ UNCHANGED <<buckets, init_size, ref, order>>
    ELSE LET r == delete(buckets, key)
         IN  /\ buckets' = r.buckets
             /\ last' = Call("delete", key, NoVal, ref[key], r.err, 0)
             /\ IF r.err = "none"
                THEN /\ ref' = [ref EXCEPT ![key] = NoVal]
                     /\ order' = Without(order, key)
                ELSE UNCHANGED <<ref, order>>
             /\ UNCHANGED init_size

\* ht.get(key)
Get(key) ==
    /\ IF Len(buckets) = 0
       THEN last' = Call("get", key, NoVal, ref[key], "ZeroDivisionError", 0)
       ELSE LET r == get(buckets, key)
            IN  last' = Call("get", key, NoVal, ref[key], r.err, r.value)
    /\ UNCHANGED <<buckets, init_size, ref, order>>

\* ht.contains(key)
Contains(key) ==
    /\ IF Len(buckets) = 0
       THEN last' = Call("contains", key, NoVal, ref[key], "ZeroDivisionError", 0)
       ELSE last' = Call("contains", key, NoVal, ref[key], "none",
                         IF contains(buckets, key) THEN 1 ELSE 0)
    /\ UNCHANGED <<buckets, init_size, ref, order>>

\* ht.items()
Items ==
    /\ last' = Call("items", 0, NoVal, NoVal, "none", items(buckets))
    /\ UNCHANGED <<buckets, init_size, ref, order>>

\* ht.keys()
KeysCall ==
    /\ last' = Call("keys", 0, NoVal, NoVal, "none", keys(buckets))
    /\ UNCHANGED <<buckets, init_size, ref, order>>

\* ht.values()
ValuesCall ==
    /\ last' = Call("values", 0, NoVal, NoVal, "none", values(buckets))
    /\ UNCHANGED <<buckets, init_size, ref, order>>

\* ht.length()
Length ==
    /\ last' = Call("length", 0, NoVal, NoVal, "none", length(buckets))
    /\ UNCHANGED <<buckets, init_size, ref, order>>

Next ==
    \/ \E key \in Keys, value \in Values : Set(key, value)
    \/ \E key \in Keys : Delete(key)
    \/ \E key \in Keys : Get(key)
    \/ \E key \in Keys : Contains(key)
    \/ Items
    \/ KeysCall
    \/ ValuesCall
    \/ Length

Spec == Init /\ [][Next]_vars

(* ------------------------------ properties ----------------------------- *)

\* the keys that have an entry according to the reference map
Held == {k \in Keys : ref[k] # NoVal}

\* the elements of a sequence
Elems(seq) == {seq[i] : i \in 1..Len(seq)}

\* the keys of a chain, in chain order
ChainKeys(chain) == [j \in 1..Len(chain) |-> chain[j][1]]

\* C1: right after set(K, V) returns, get(K) returns V and contains(K) is
\* true, whatever the table held before (K absent, or present with any value).
C1_SetThenGet ==
    (last.op = "set" /\ last.err = "none")
        => /\ get(buckets, last.key) = [err |-> "none", value |-> last.value]
           /\ contains(buckets, last.key)

\* a set has overwritten a different value of a key that shares its chain
C1_Witness ==
    /\ last.op = "set"
    /\ last.err = "none"
    /\ last.old # NoVal
    /\ last.old # last.value
    /\ Len(get_bucket(buckets, last.key)) >= 2

\* the positions <<bucket, place in its chain>> of the entries
Positions ==
    UNION {{<<i, j>> : j \in 1..Len(buckets[i])} : i \in 1..Len(buckets)}

\* C2: at most one entry per distinct key exists across all chains: no key
\* occurs twice in a chain, and no key occurs in two chains.
C2_UniqueKeys ==
    \A k \in Keys :
        Cardinality({p \in Positions : buckets[p[1]][p[2]][1] = k}) <= 1

\* every key is stored, over at least two chains, right after an overwrite
C2_Witness ==
    /\ last.op = "set"
    /\ last.err = "none"
    /\ last.old # NoVal
    /\ Held = Keys
    /\ Cardinality({i \in 1..Len(buckets) : Len(buckets[i]) > 0}) >= 2

\* C3: the pairs of items() are exactly the reference map's pairs: (K, V)
\* for each key whose most recent successful call is a set of V, and no pair
\* for a key never set or deleted since; each pair occurs once.
C3_ItemsMatchReference ==
    /\ Elems(items(buckets)) = {<<k, ref[k]>> : k \in Held}
    /\ Len(items(buckets)) = Cardinality(Held)
    /\ last.op = "items" => last.result = items(buckets)

\* items() returns two pairs, one of them with the largest value
C3_Witness ==
    /\ last.op = "items"
    /\ Len(last.result) = 2
    /\ Cardinality(Held) = 2
    /\ \E k \in Held : ref[k] = MaxVal

\* C4: length() is the number of distinct keys that have an entry, however
\* the keys are spread over the buckets; 0 once every key is deleted.
C4_LengthIsDistinctKeys ==
    /\ length(buckets) = Cardinality(Held)
    /\ last.op = "length" => last.result = Cardinality(Held)

\* length() returns 3 for a table of two buckets, one holding two keys
C4_Witness ==
    /\ last.op = "length"
    /\ last.result = 3
    /\ Len(buckets) = 2
    /\ \E i \in 1..2 : Len(buckets[i]) = 2

\* C5: set(K, V2) on a key already present leaves length() unchanged, and
\* get(K) then returns V2; also when V2 is the old value and when K shares
\* its chain with other keys.
C5_OverwriteStep ==
    (last'.op = "set" /\ last'.err = "none" /\ ref[last'.key] # NoVal)
        => /\ length(buckets') = length(buckets)
           /\ get(buckets', last'.key) = [err |-> "none", value |-> last'.value]

C5_OverwriteKeepsLength == [][C5_OverwriteStep]_vars

\* a key sharing its chain was overwritten with the value it already had
C5_Witness ==
    /\ last.op = "set"
    /\ last.err = "none"
    /\ last.old = last.value
    /\ Len(get_bucket(buckets, last.key)) >= 2

\* C6: for a key without a current entry, contains returns false, get fails
\* with KeyError and delete fails with KeyError; the chain's own not-found
\* error never reaches the caller.
C6_AbsentKeyNotFound ==
    /\ last.err # "ValueError"
    /\ (last.op = "contains" /\ ref[last.key] = NoVal)
           => (last.err = "none" /\ last.result = 0)
    /\ (last.op = "get" /\ ref[last.key] = NoVal) => last.err = "KeyError"
    /\ (last.op = "delete" /\ last.old = NoVal) => last.err = "KeyError"

\* C7: a get or delete that fails with KeyError changes no chain: entries
\* and their order are as before, so length() and items() are unchanged.
C7_FailureStep ==
    (last'.op \in {"get", "delete"} /\ last'.err = "KeyError")
        => /\ buckets' = buckets
           /\ length(buckets') = length(buckets)
           /\ items(buckets') = items(buckets)

C7_FailureMutatesNothing == [][C7_FailureStep]_vars

\* a delete of an absent key failed while its bucket held other keys
C7_Witness ==
    /\ last.op = "delete"
    /\ last.err = "KeyError"
    /\ Len(get_bucket(buckets, last.key)) >= 1

\* C8: a table with zero buckets is never reachable, so no set, get,
\* contains or delete runs on a table whose bucket count is 0.
C8_NoZeroBuckets ==
    /\ Len(buckets) > 0
    /\ last.err # "ZeroDivisionError"

\* the keys of order that belong to bucket i (1-based), in order
OrderOfBucket(i) ==
    SelectSeq(order, LAMBDA k : bucket_index(buckets, k) + 1 = i)

\* the keys of order, bucket by bucket
RECURSIVE OrderFrom(_)
OrderFrom(i) ==
    IF i > Len(buckets) THEN <<>> ELSE OrderOfBucket(i) \o OrderFrom(i + 1)

\* C9: set(K, V) on a present key moves K's entry to the tail of its chain,
\* keeps the relative order of the chain's other entries and leaves every
\* other chain alone; so each chain lists its keys in order of their most
\* recent set, and items(), keys(), values() list the chains in array order.
C9_MoveStep ==
    (last'.op = "set" /\ last'.err = "none" /\ ref[last'.key] # NoVal)
        => LET idx == bucket_index(buckets, last'.key) + 1
               old == buckets[idx]
               new == buckets'[idx]
               others(chain) == SelectSeq(chain, LAMBDA e : e[1] # last'.key)
           IN  /\ Len(new) = Len(old)
               /\ new[Len(new)] = <<last'.key, last'.value>>
               /\ others(new) = others(old)
               /\ \A i \in 1..Len(buckets) : i # idx => buckets'[i] = buckets[i]

C9_ListingOrder ==
    /\ \A i \in 1..Len(buckets) : ChainKeys(buckets[i]) = OrderOfBucket(i)
    /\ keys(buckets) = OrderFrom(1)
    /\ values(buckets) = [j \in 1..Len(OrderFrom(1)) |-> ref[OrderFrom(1)[j]]]
    /\ items(buckets) =
           [j \in 1..Len(OrderFrom(1)) |-> <<OrderFrom(1)[j], ref[OrderFrom(1)[j]]>>]
    /\ last.op = "keys" => last.result = OrderFrom(1)
    /\ last.op = "values" => last.result = values(buckets)

C9_UpdateMovesToTail == [][C9_MoveStep]_vars /\ []C9_ListingOrder

\* a chain of three keys whose tail was just overwritten, and whose order
\* differs from the order of the keys' first sets
C9_Witness ==
    /\ last.op = "set"
    /\ last.err = "none"
    /\ last.old # NoVal
    /\ \E i \in 1..Len(buckets) :
           /\ Len(buckets[i]) = 3
           /\ buckets[i][3] = <<last.key, last.value>>
           /\ buckets[i][1][1] > buckets[i][2][1]

\* C10: the number of buckets is the init_size given at construction, and
\* every entry (K, V) is in the chain at index hash(K) mod bucket count.
C10_Placement ==
    /\ Len(buckets) = init_size
    /\ \A i \in 1..Len(buckets) :
           \A j \in 1..Len(buckets[i]) :
               bucket_index(buckets, buckets[i][j][1]) + 1 = i

====
